---- MODULE Spec2Model ----
(***************************************************************************)
(* Model of src/vector-drawing.js: the click-to-vertex path (addVertex),   *)
(* the run ledger drawingHistory, the two GPU buffers with their byte      *)
(* offsets, the render pass, and the JSON snapshot download / upload.      *)
(*                                                                         *)
(* Numbers stored in the buffers are exact rationals <<n, d>> (d > 0, in   *)
(* lowest terms).  JavaScript values that may be undefined or NaN (the     *)
(* arguments of gl.drawArrays) are tagged records, see Num/Undefined/NaN.  *)
(***************************************************************************)
EXTENDS Integers, Sequences, FiniteSets, TLC

\* ------------------------------------------------------------------ bounds
\* Capacity of both buffers in vertices (100000 in the source, line 102 and
\* 109); scaled down so that the capacity boundary is reached.
MAX_VERTICES == 2
\* Clicks accepted by the model beyond the capacity of the buffers.
MaxOverflow == 1
\* Clicks followed when only editing events are taken (SpecEdit).
MaxEditClicks == 6
\* Downloads and uploads the model follows in one session.
MaxDownloads == 2
MaxUploads == 2
\* FileReaders that may be reading at the same time.
MaxReaders == 1
\* Largest canvas width and height, and the clicks followed, when the
\* coordinate mapping is explored (SpecMap).
MaxSurface == 2
MaxMapClicks == 2

\* Float32Array.BYTES_PER_ELEMENT
BYTES_PER_ELEMENT == 4

\* ------------------------------------------------------------- JS numbers
RECURSIVE GCD(_, _)
GCD(a, b) == IF b = 0 THEN a ELSE GCD(b, a % b)

Abs(n) == IF n < 0 THEN -n ELSE n

\* The rational n/d in lowest terms, d > 0.
Rat(n, d) ==
    LET g == GCD(Abs(n), Abs(d))
        s == IF d < 0 THEN -1 ELSE 1
    IN  <<(s * n) \div g, (s * d) \div g>>

Zero == Rat(0, 1)

Num(n) == [t |-> "num", v |-> n]
Undefined == [t |-> "undefined", v |-> 0]
NaN == [t |-> "NaN", v |-> 0]

\* a + b on JavaScript values: anything but two numbers gives NaN.
JSAdd(a, b) == IF a.t = "num" /\ b.t = "num" THEN Num(a.v + b.v) ELSE NaN

\* ------------------------------------------------------------------ inputs
\* Values of the #draw-mode select.
Modes == {"POINTS", "LINES"}

\* Values of the #draw-color input, as the three bytes of "#rrggbb".
HexColors == {<<255, 0, 0>>, <<0, 51, 255>>}

\* Click events: offsetX, offsetY and the canvas's offsetWidth, offsetHeight.
Clicks == {[x |-> 3, y |-> 0, w |-> 4, h |-> 4]}

\* -------------------------------------------------- drawingHistory entries
\* An entry of drawingHistory is a run {mode, vertLength}, a Float32Array
\* (pushed by downloadDrawing), or an object with keys "0", "1", ... (what
\* JSON.parse gives for a stringified Float32Array).
Run(m, n) == [kind |-> "run", mode |-> m, vertLength |-> n, data |-> <<>>]
F32(a) == [kind |-> "f32", mode |-> "undefined", vertLength |-> 0, data |-> a]
Obj(kv) == [kind |-> "obj", mode |-> "undefined", vertLength |-> 0, data |-> kv]

IsRun(e) == e.kind = "run"

\* entry.mode and entry.vertLength as JavaScript reads them.
ModeOf(e) == IF e.kind = "run" THEN e.mode ELSE "undefined"
VertLengthOf(e) == IF e.kind = "run" THEN Num(e.vertLength) ELSE Undefined

VARIABLES
    drawingHistory,          \* the run ledger (line 12)
    posBuffer,               \* contents of gl.posBuffer, in float components
    colorBuffer,             \* contents of gl.colorBuffer
    currentCoordByteOffset,  \* gl.currentCoordByteOffset
    currentColorByteOffset,  \* gl.currentColorByteOffset
    drawingMode,             \* gl.drawingMode
    drawingColor,            \* gl.drawingColor
    drawCalls,               \* gl.drawArrays calls of the last render pass
    startingIndexPerMode,    \* render's running offset after the last pass
    readers,                 \* files being read by FileReaders
    disk,                    \* the snapshot file saved last
    ev                       \* the last click, download or load handled
                             \* (with the file read, for a load)
VARIABLES
    nDownloads,              \* downloads so far
    nUploads,                \* uploads started so far
    clickModes               \* gl.drawingMode at each click since
                             \* drawingHistory was last assigned
VARIABLES
    phase,                   \* "loading" before the window's load event,
                             \* then "running" or "failed"
    alerts,                  \* window.alert calls so far
    handlers,                \* the event listeners registered
    page                     \* whether the document has #webgl-canvas and
                             \* whether it gives a WebGL 2 context

vars == <<drawingHistory, posBuffer, colorBuffer, currentCoordByteOffset,
          currentColorByteOffset, drawingMode, drawingColor, drawCalls,
          startingIndexPerMode, readers, disk, ev, nDownloads, nUploads,
          clickModes, phase, alerts, handlers, page>>

startupVars == <<phase, alerts, handlers, page>>


\* ------------------------------------------------------------ GPU buffers
\* gl.bufferData(target, size, usage): a zero-filled store of MAX_VERTICES
\* vertices with `comps` float components each.
bufferData(comps) == [i \in 1..(MAX_VERTICES * comps) |-> Zero]

\* gl.bufferSubData(target, byteOffset, data): writes data at byteOffset;
\* a write that would pass the end of the store raises INVALID_VALUE and
\* writes nothing.
bufferSubData(buf, byteOffset, data) ==
    LET first == byteOffset \div BYTES_PER_ELEMENT
    IN  IF first + Len(data) > Len(buf)
        THEN buf
        ELSE [i \in 1..Len(buf) |->
                 IF i > first /\ i <= first + Len(data)
                 THEN data[i - first] ELSE buf[i]]

\* gl.getBufferSubData(target, 0, dst) into a fresh Float32Array of n
\* components: a read that would pass the end of the store raises
\* INVALID_VALUE and leaves dst as new Float32Array(n) made it, all zero.
getBufferSubData(buf, n) ==
    IF n > Len(buf) THEN [i \in 1..n |-> Zero] ELSE SubSeq(buf, 1, n)

\* ------------------------------------------------------------- conversions
\* hexToRgb: each byte of "#rrggbb" divided by 255.
hexToRgb(hexValue) ==
    <<Rat(hexValue[1], 255), Rat(hexValue[2], 255), Rat(hexValue[3], 255)>>

\* ClipCoords without the inversion of the y axis.
ClipCoordsNoFlip(e) == <<Rat(2 * e.x - e.w, e.w), Rat(2 * e.y - e.h, e.h)>>

\* Line 173: window coordinates to clip coordinates,
\* (2x)/w - 1 = (2x - w)/w and 1 - (2y)/h = (h - 2y)/h.
ClipCoords(e) == <<Rat(2 * e.x - e.w, e.w), Rat(e.h - 2 * e.y, e.h)>>

\* JSON.stringify of one entry: a run stays a run; a Float32Array becomes
\* an object whose keys are the indices "0", "1", ... in ascending order;
\* such an object stays as it is.
StringifyEntry(e) ==
    IF e.kind = "f32"
    THEN Obj([i \in 1..Len(e.data) |-> <<i - 1, e.data[i]>>])
    ELSE e

\* JSON.parse(JSON.stringify(history)).
JSONRoundTrip(history) == [i \in 1..Len(history) |-> StringifyEntry(history[i])]

\* What Float32Array.from makes of a value that is not a number.
NaNFloat == <<0, 0>>

\* ObjectValues with the values taken in descending key order.
ObjectValuesDescending(o) ==
    [i \in 1..Len(o.data) |-> o.data[Len(o.data) + 1 - i][2]]

\* Float32Array.from(Object.values(o)): of an index-keyed object the values
\* in ascending key order; of a run {mode, vertLength} the two property
\* values, the mode string becoming NaN.
ObjectValues(o) ==
    IF o.kind = "run"
    THEN <<NaNFloat, Rat(o.vertLength, 1)>>
    ELSE [i \in 1..Len(o.data) |-> o.data[i][2]]

\* --------------------------------------------------------------- rendering
\* The forEach of render (lines 153-158): the gl.drawArrays calls issued for
\* the first k entries of history and the running offset after them.
RECURSIVE RenderPass(_, _)
RenderPass(history, k) ==
    IF k = 0
    THEN [calls |-> <<>>, offset |-> Num(0)]
    ELSE LET prev == RenderPass(history, k - 1)
             e == history[k]
         IN  [calls |-> Append(prev.calls,
                               [mode |-> ModeOf(e),
                                first |-> prev.offset,
                                count |-> VertLengthOf(e)]),
              offset |-> JSAdd(prev.offset, VertLengthOf(e))]

render(history) == RenderPass(history, Len(history))

\* ------------------------------------------------------------------- files
NoFile == [origin |-> "none", text |-> "none", list |-> <<>>,
           origPos |-> <<>>, origCol |-> <<>>, origHistory |-> <<>>,
           coordBytes |-> 0, colorBytes |-> 0]

\* A file written by hand: its text parses as JSON to `list`, or does not
\* parse at all (text = "garbage").
HandFile(text, list) ==
    [origin |-> "hand", text |-> text, list |-> list,
     origPos |-> <<>>, origCol |-> <<>>, origHistory |-> <<>>,
     coordBytes |-> 0, colorBytes |-> 0]

Floats(a) == Obj([i \in 1..Len(a) |-> <<i - 1, a[i]>>])

One == Rat(1, 1)

\* An odd number of position components.
OddFile == HandFile("json", <<Run("POINTS", 1),
                              Floats(<<One, Zero, One>>),
                              Floats(<<Zero, One, Zero>>)>>)
\* One vertex of positions, two of colours.
MismatchFile == HandFile("json", <<Run("POINTS", 1),
                                   Floats(<<One, Zero>>),
                                   Floats(<<Zero, One, Zero, One, Zero, One>>)>>)
\* A list of fewer than two entries.
ShortFile == HandFile("json", <<Run("LINES", 1)>>)
\* Text that is not JSON.
GarbageFile == HandFile("garbage", <<>>)

HandFiles == {OddFile, MismatchFile, ShortFile, GarbageFile}

\* The files the user can pick in the #upload input.
Files == HandFiles \cup (IF disk = NoFile THEN {} ELSE {disk})

\* ------------------------------------------------------------------- state
NoClick == [x |-> 0, y |-> 0, w |-> 0, h |-> 0]
NoEvent == [op |-> "init", file |-> NoFile, outcome |-> "ok", click |-> NoClick]
Event(op, file, outcome) ==
    [op |-> op, file |-> file, outcome |-> outcome, click |-> NoClick]
ClickEvent(e) == [op |-> "click", file |-> NoFile, outcome |-> "ok", click |-> e]

\* The listeners of lines 127-139.
AllHandlers == {"changeMode", "changeColor", "addVertex", "downloadDrawing",
                "uploadDrawing"}

\* Lines 12 and 15-39 (canvas and context present): empty history, offsets
\* 0, zero-filled buffers, the inputs at their current values, one render.
Init ==
    /\ drawingHistory = <<>>
    /\ posBuffer = bufferData(2)
    /\ colorBuffer = bufferData(3)
    /\ currentCoordByteOffset = 0
    /\ currentColorByteOffset = 0
    /\ drawingMode \in Modes
    /\ \E c \in HexColors : drawingColor = hexToRgb(c)
    /\ drawCalls = render(<<>>).calls
    /\ startingIndexPerMode = render(<<>>).offset
    /\ readers = <<>>
    /\ disk = NoFile
    /\ ev = NoEvent
    /\ nDownloads = 0
    /\ nUploads = 0
    /\ clickModes = <<>>
    /\ phase = "running"
    /\ alerts = 0
    /\ handlers = AllHandlers
    /\ page = [canvas |-> TRUE, context |-> TRUE]

\* Line 127.
changeMode(value) ==
    /\ drawingMode' = value
    /\ UNCHANGED <<ev, drawingHistory, posBuffer, colorBuffer, currentCoordByteOffset,
                   currentColorByteOffset, drawingColor, drawCalls,
                   startingIndexPerMode, readers, disk, nDownloads, nUploads,
                   clickModes, startupVars>>

\* Line 132.
changeColor(value) ==
    /\ drawingColor' = hexToRgb(value)
    /\ UNCHANGED <<ev, drawingHistory, posBuffer, colorBuffer, currentCoordByteOffset,
                   currentColorByteOffset, drawingMode, drawCalls,
                   startingIndexPerMode, readers, disk, nDownloads, nUploads,
                   clickModes, startupVars>>

\* RecordVertex with the increment of line 182 skipped for a run just pushed.
RecordVertexNoCount(history, mode) ==
    LET n == Len(history)
    IN  IF n = 0 \/ mode # ModeOf(history[n])
        THEN Append(history, Run(mode, 0))
        ELSE [history EXCEPT ![n] = Run(history[n].mode, history[n].vertLength + 1)]

\* RecordVertex with the mode compared against the first entry, not the last.
RecordVertexFirst(history, mode) ==
    LET n == Len(history)
        started == IF n = 0 \/ mode # ModeOf(history[1])
                   THEN Append(history, Run(mode, 0))
                   ELSE history
        last == started[Len(started)]
    IN  [started EXCEPT ![Len(started)] = Run(last.mode, last.vertLength + 1)]

\* Lines 179-182: start a run unless the last entry's mode is the current
\* mode, then count the vertex in the last entry.
RecordVertex(history, mode) ==
    LET n == Len(history)
        started == IF n = 0 \/ mode # ModeOf(history[n])
                   THEN Append(history, Run(mode, 0))
                   ELSE history
        last == started[Len(started)]
    IN  [started EXCEPT ![Len(started)] = Run(last.mode, last.vertLength + 1)]

\* Lines 169-198.
addVertex(e) ==
    /\ drawingHistory' = RecordVertex(drawingHistory, drawingMode)
    /\ posBuffer' = bufferSubData(posBuffer, currentCoordByteOffset, ClipCoords(e))
    /\ colorBuffer' = bufferSubData(colorBuffer, currentColorByteOffset, drawingColor)
    /\ currentCoordByteOffset' = currentCoordByteOffset + 2 * BYTES_PER_ELEMENT
    /\ currentColorByteOffset' = currentColorByteOffset + 3 * BYTES_PER_ELEMENT
    /\ drawCalls' = render(drawingHistory').calls
    /\ startingIndexPerMode' = render(drawingHistory').offset
    /\ ev' = ClickEvent(e)
    /\ clickModes' = Append(clickModes, drawingMode)
    /\ UNCHANGED <<drawingMode, drawingColor, readers, disk, nDownloads,
                   nUploads, startupVars>>


Min(a, b) == IF a < b THEN a ELSE b

\* The components of buf below the write offset.
UsedPrefix(buf, byteOffset) ==
    SubSeq(buf, 1, Min(byteOffset \div BYTES_PER_ELEMENT, Len(buf)))

\* Lines 220-235: the history after the push and the file made of it.  The
\* file also records, for reference, the stored components, the history and
\* the offsets as they were when the handler started.
Snapshot ==
    LET vertices == getBufferSubData(posBuffer,
                        currentCoordByteOffset \div BYTES_PER_ELEMENT)
        colors == getBufferSubData(colorBuffer,
                        currentColorByteOffset \div BYTES_PER_ELEMENT)
        pushed == drawingHistory \o <<F32(vertices), F32(colors)>>
    IN  [pushed |-> pushed,
         file |-> [origin |-> "download", text |-> "json",
                   list |-> JSONRoundTrip(pushed),
                   origPos |-> UsedPrefix(posBuffer, currentCoordByteOffset),
                   origCol |-> UsedPrefix(colorBuffer, currentColorByteOffset),
                   origHistory |-> drawingHistory,
                   coordBytes |-> currentCoordByteOffset,
                   colorBytes |-> currentColorByteOffset]]

\* Lines 218-240.  The browser saves the file, which replaces the one saved
\* before.
downloadDrawing ==
    /\ nDownloads < MaxDownloads
    /\ nDownloads' = nDownloads + 1
    /\ drawingHistory' = Snapshot.pushed
    /\ disk' = Snapshot.file
    /\ ev' = Event("download", NoFile, "ok")
    /\ UNCHANGED <<posBuffer, colorBuffer, currentCoordByteOffset,
                   currentColorByteOffset, drawingMode, drawingColor, drawCalls,
                   startingIndexPerMode, readers, nUploads, clickModes,
                   startupVars>>

\* Lines 247-251 and 274: a file was chosen, a FileReader starts reading it.
uploadDrawing(file) ==
    /\ Len(readers) < MaxReaders
    /\ nUploads < MaxUploads
    /\ nUploads' = nUploads + 1
    /\ readers' = Append(readers, file)
    /\ UNCHANGED <<ev, drawingHistory, posBuffer, colorBuffer, currentCoordByteOffset,
                   currentColorByteOffset, drawingMode, drawingColor, drawCalls,
                   startingIndexPerMode, disk, nDownloads, clickModes,
                   startupVars>>

RemoveAt(seq, i) == SubSeq(seq, 1, i - 1) \o SubSeq(seq, i + 1, Len(seq))

\* Lines 254-273, the load event of the i-th reader.
\*  - JSON.parse throws on text that is not JSON: nothing is assigned.
\*  - With fewer than two entries a pop returns undefined and Object.values
\*    throws, after drawingHistory was assigned and emptied by the pops.
\*  - Otherwise both arrays are written at offset 0, the offsets are set from
\*    their lengths and the scene is rendered.
readerLoad(i) ==
    LET file == readers[i]
        n == Len(file.list)
    IN  /\ readers' = RemoveAt(readers, i)
        /\ UNCHANGED <<drawingMode, drawingColor, disk, nDownloads, nUploads,
                       startupVars>>
        /\ IF file.text # "json"
           THEN /\ ev' = Event("load", file, "threw")
                /\ UNCHANGED <<drawingHistory, posBuffer, colorBuffer,
                               currentCoordByteOffset, currentColorByteOffset,
                               drawCalls, startingIndexPerMode, clickModes>>
           ELSE IF n < 2
           THEN /\ drawingHistory' = <<>>
                /\ clickModes' = <<>>
                /\ ev' = Event("load", file, "threw")
                /\ UNCHANGED <<posBuffer, colorBuffer, currentCoordByteOffset,
                               currentColorByteOffset, drawCalls,
                               startingIndexPerMode>>
           ELSE LET colors == ObjectValues(file.list[n])
                    vertices == ObjectValues(file.list[n - 1])
                IN  /\ drawingHistory' = SubSeq(file.list, 1, n - 2)
                    /\ clickModes' = <<>>
                    /\ posBuffer' = bufferSubData(posBuffer, 0, vertices)
                    /\ colorBuffer' = bufferSubData(colorBuffer, 0, colors)
                    /\ currentCoordByteOffset' = Len(vertices) * BYTES_PER_ELEMENT
                    /\ currentColorByteOffset' = Len(colors) * BYTES_PER_ELEMENT
                    /\ drawCalls' = render(drawingHistory').calls
                    /\ startingIndexPerMode' = render(drawingHistory').offset
                    /\ ev' = Event("load", file, "ok")

\* ---------------------------------------------------------- specifications
\* A click is followed while the offsets stand for fewer than MAX_VERTICES +
\* MaxOverflow vertices.
ClickAllowed ==
    currentCoordByteOffset <
        (MAX_VERTICES + MaxOverflow) * 2 * BYTES_PER_ELEMENT

EditClickAllowed == Len(clickModes) < MaxEditClicks

Next ==
    \/ \E value \in Modes : changeMode(value)
    \/ \E value \in HexColors : changeColor(value)
    \/ \E e \in Clicks : ClickAllowed /\ addVertex(e)
    \/ downloadDrawing
    \/ \E file \in Files : uploadDrawing(file)
    \/ \E i \in 1..Len(readers) : readerLoad(i)

Spec == Init /\ [][Next]_vars

\* Interactive editing alone: clicks with mode and colour changes.
NextEdit ==
    \/ \E value \in Modes : changeMode(value)
    \/ \E value \in HexColors : changeColor(value)
    \/ \E e \in Clicks : EditClickAllowed /\ addVertex(e)

SpecEdit == Init /\ [][NextEdit]_vars

\* Clicks anywhere on canvases of every size up to MaxSurface.
MapClicks ==
    {e \in [x : 0..MaxSurface, y : 0..MaxSurface,
            w : 1..MaxSurface, h : 1..MaxSurface] : e.x <= e.w /\ e.y <= e.h}

MapClickAllowed == Len(clickModes) < MaxMapClicks

NextMap == \E e \in MapClicks : MapClickAllowed /\ addVertex(e)

SpecMap == Init /\ [][NextMap]_vars

\* A render pass that takes the entries off drawingHistory as it draws them.
renderPassConsuming ==
    /\ drawCalls' = render(drawingHistory).calls
    /\ startingIndexPerMode' = render(drawingHistory).offset
    /\ drawingHistory' = <<>>
    /\ ev' = Event("render", NoFile, "ok")
    /\ UNCHANGED <<posBuffer, colorBuffer, currentCoordByteOffset,
                   currentColorByteOffset, drawingMode, drawingColor, readers,
                   disk, nDownloads, nUploads, clickModes, startupVars>>

\* Lines 147-162, render() called on its own: it reads drawingHistory and
\* issues the draw calls; startingIndexPerMode is local to the call.
renderPass ==
    /\ drawCalls' = render(drawingHistory).calls
    /\ startingIndexPerMode' = render(drawingHistory).offset
    /\ ev' = Event("render", NoFile, "ok")
    /\ UNCHANGED <<drawingHistory, posBuffer, colorBuffer, currentCoordByteOffset,
                   currentColorByteOffset, drawingMode, drawingColor, readers,
                   disk, nDownloads, nUploads, clickModes, startupVars>>

\* Editing and downloads, with render passes in between.
NextRender ==
    \/ \E value \in Modes : changeMode(value)
    \/ \E value \in HexColors : changeColor(value)
    \/ \E e \in Clicks : ClickAllowed /\ addVertex(e)
    \/ downloadDrawing
    \/ renderPass

SpecRender == Init /\ [][NextRender]_vars

\* The script has run (line 12) and the window's load event is still to come:
\* gl is undefined, so there are no offsets, buffers, inputs or listeners.
InitStartup ==
    /\ drawingHistory = <<>>
    /\ posBuffer = <<>>
    /\ colorBuffer = <<>>
    /\ currentCoordByteOffset = Undefined
    /\ currentColorByteOffset = Undefined
    /\ drawingMode = "undefined"
    /\ drawingColor = <<>>
    /\ drawCalls = <<>>
    /\ startingIndexPerMode = Undefined
    /\ readers = <<>>
    /\ disk = NoFile
    /\ ev = NoEvent
    /\ nDownloads = 0
    /\ nUploads = 0
    /\ clickModes = <<>>
    /\ phase = "loading"
    /\ alerts = 0
    /\ handlers = {}
    /\ page \in [canvas : BOOLEAN, context : BOOLEAN]

\* Lines 24-38: offsets, buffers, listeners and the first render.
Initialize ==
    /\ currentCoordByteOffset' = 0
    /\ currentColorByteOffset' = 0
    /\ posBuffer' = bufferData(2)
    /\ colorBuffer' = bufferData(3)
    /\ drawingMode' \in Modes
    /\ \E c \in HexColors : drawingColor' = hexToRgb(c)
    /\ handlers' = AllHandlers
    /\ drawCalls' = render(drawingHistory).calls
    /\ startingIndexPerMode' = render(drawingHistory).offset
    /\ phase' = "running"
    /\ UNCHANGED <<drawingHistory, readers, disk, ev, nDownloads, nUploads,
                   clickModes, page>>

\* init with the two returns of lines 18 and 22 left out.
initProceeds ==
    /\ phase = "loading"
    /\ alerts' = IF page.canvas /\ page.context THEN alerts ELSE alerts + 1
    /\ Initialize

\* Lines 15-39, the window's load event: without the canvas, or without a
\* WebGL 2 context for it, one alert and return.
init ==
    /\ phase = "loading"
    /\ IF page.canvas /\ page.context
       THEN /\ UNCHANGED alerts
            /\ Initialize
       ELSE /\ alerts' = alerts + 1
            /\ phase' = "failed"
            /\ UNCHANGED <<drawingHistory, posBuffer, colorBuffer,
                           currentCoordByteOffset, currentColorByteOffset,
                           drawingMode, drawingColor, drawCalls,
                           startingIndexPerMode, readers, disk, ev, nDownloads,
                           nUploads, clickModes, handlers, page>>

\* Startup followed by the events of the listeners that were registered.
NextStartup ==
    \/ init
    \/ "changeMode" \in handlers /\ \E value \in Modes : changeMode(value)
    \/ "changeColor" \in handlers /\ \E value \in HexColors : changeColor(value)
    \/ "addVertex" \in handlers /\ \E e \in Clicks : ClickAllowed /\ addVertex(e)
    \/ "downloadDrawing" \in handlers /\ downloadDrawing
    \/ "uploadDrawing" \in handlers /\ \E file \in Files : uploadDrawing(file)
    \/ \E i \in 1..Len(readers) : readerLoad(i)

SpecStartup == InitStartup /\ [][NextStartup]_vars


\* ------------------------------------------------------------------ claims
\* Sum of vertLength over the runs of a history.
RECURSIVE TotalVertices(_)
TotalVertices(history) ==
    IF history = <<>> THEN 0
    ELSE (IF IsRun(Head(history)) THEN Head(history).vertLength ELSE 0)
         + TotalVertices(Tail(history))

\* The runs of a history, in order.
RunsOf(history) == SelectSeq(history, IsRun)

\* Length of the longest prefix of modes whose elements all equal modes[1].
RECURSIVE PrefixRun(_)
PrefixRun(modes) ==
    IF Len(modes) <= 1 THEN Len(modes)
    ELSE IF modes[2] = modes[1] THEN 1 + PrefixRun(Tail(modes)) ELSE 1

\* Run-length encoding of a sequence of modes.
RECURSIVE RLE(_)
RLE(modes) ==
    IF modes = <<>> THEN <<>>
    ELSE LET k == PrefixRun(modes)
         IN  <<Run(modes[1], k)>> \o RLE(SubSeq(modes, k + 1, Len(modes)))

CoordBytesPerVertex == 2 * BYTES_PER_ELEMENT
ColorBytesPerVertex == 3 * BYTES_PER_ELEMENT
CapacityCoordBytes == MAX_VERTICES * CoordBytesPerVertex
CapacityColorBytes == MAX_VERTICES * ColorBytesPerVertex

\* C1: after any sequence of clicks with mode and colour changes (SpecEdit),
\* the vertLength of all entries of drawingHistory add up to the number of
\* vertices stored, currentCoordByteOffset / (2 * 4).
C1_LedgerSumEqualsVertexCount ==
    /\ currentCoordByteOffset % CoordBytesPerVertex = 0
    /\ \A i \in 1..Len(drawingHistory) : IsRun(drawingHistory[i])
    /\ TotalVertices(drawingHistory) = currentCoordByteOffset \div CoordBytesPerVertex

\* C1 witness: several runs, and clicks past the capacity of the buffers.
C1_Witness ==
    /\ Len(drawingHistory) >= 3
    /\ currentCoordByteOffset > CapacityCoordBytes
    /\ TotalVertices(drawingHistory) = MaxEditClicks

\* C2 (as claimed): in every reachable state of the full system the run
\* lengths of the ledger add up to vertexCount.
C2_LedgerSumAlways ==
    TotalVertices(drawingHistory) * CoordBytesPerVertex = currentCoordByteOffset

\* C3: under clicks and mode changes alone (SpecEdit) the ledger is the
\* run-length encoding of the modes active at the clicks.
C3_LedgerIsRLE == drawingHistory = RLE(clickModes)

\* C3 witness: the modes [A, A, B, B, B, A] of the example.
C3_Witness ==
    /\ Len(clickModes) = 6
    /\ clickModes[1] = clickModes[2]
    /\ clickModes[2] # clickModes[3]
    /\ clickModes[3] = clickModes[4]
    /\ clickModes[4] = clickModes[5]
    /\ clickModes[5] # clickModes[6]
    /\ Len(drawingHistory) = 3

\* C4 (as claimed): in every reachable state both offsets stand for the same
\* whole number of vertices.
C4_OffsetsAgree ==
    /\ currentCoordByteOffset % CoordBytesPerVertex = 0
    /\ currentColorByteOffset % ColorBytesPerVertex = 0
    /\ currentCoordByteOffset \div CoordBytesPerVertex
         = currentColorByteOffset \div ColorBytesPerVertex

\* C5 (as claimed): a click when vertexCount = MAX_VERTICES changes neither
\* the offsets nor the ledger.
C5_ClickAtCapacityRejected ==
    [][((\E e \in Clicks : addVertex(e))
          /\ currentCoordByteOffset = CapacityCoordBytes)
       => UNCHANGED <<drawingHistory, currentCoordByteOffset,
                      currentColorByteOffset>>]_vars


\* A load of a file that downloadDrawing wrote has just completed.
LoadedDownload ==
    /\ ev.op = "load"
    /\ ev.outcome = "ok"
    /\ ev.file.origin = "download"

\* C6: after loading a snapshot that downloadDrawing wrote while the offsets
\* were within capacity, the stored positions and colours below the offsets
\* equal, element for element, those at the download, and the offsets are
\* those of the download.
C6_GeometryRoundTrip ==
    (/\ LoadedDownload
     /\ ev.file.coordBytes <= CapacityCoordBytes
     /\ ev.file.colorBytes <= CapacityColorBytes)
    => /\ currentCoordByteOffset = ev.file.coordBytes
       /\ currentColorByteOffset = ev.file.colorBytes
       /\ UsedPrefix(posBuffer, currentCoordByteOffset) = ev.file.origPos
       /\ UsedPrefix(colorBuffer, currentColorByteOffset) = ev.file.origCol

\* C6 witness: a snapshot of MAX_VERTICES vertices in two colours was loaded.
C6_Witness ==
    /\ LoadedDownload
    /\ ev.file.coordBytes = CapacityCoordBytes
    /\ ev.file.colorBytes = CapacityColorBytes
    /\ \E i, j \in 1..Len(ev.file.origCol) : ev.file.origCol[i] # ev.file.origCol[j]
    /\ \E i, j \in 1..Len(ev.file.origPos) : ev.file.origPos[i] # ev.file.origPos[j]

\* C7 (as claimed): after loading a snapshot that downloadDrawing wrote, the
\* ledger is the sequence of runs placed up to that download, and the draw
\* calls of the render pass are those of a pass just before the download.
C7_RunRoundTrip ==
    LoadedDownload
    => /\ drawingHistory = RunsOf(ev.file.origHistory)
       /\ drawCalls = render(ev.file.origHistory).calls

\* C8 (as claimed): a saved snapshot is a list whose entries before the last
\* two are all runs and whose last two are the position array of
\* 2 * vertexCount components and the colour array of 3 * vertexCount.
C8_SnapshotShape ==
    disk # NoFile
    => LET n == Len(disk.list)
       IN  /\ n >= 2
           /\ \A i \in 1..(n - 2) : IsRun(disk.list[i])
           /\ disk.list[n - 1].kind = "obj"
           /\ disk.list[n].kind = "obj"
           /\ Len(disk.list[n - 1].data) * BYTES_PER_ELEMENT = disk.coordBytes
           /\ Len(disk.list[n].data) * BYTES_PER_ELEMENT = disk.colorBytes
           /\ disk.coordBytes % CoordBytesPerVertex = 0
           /\ disk.coordBytes \div CoordBytesPerVertex
                = disk.colorBytes \div ColorBytesPerVertex

\* The draw calls the claim expects of a ledger of runs.
ExpectedCalls(history) ==
    [k \in 1..Len(history) |->
        [mode |-> history[k].mode,
         first |-> Num(TotalVertices(SubSeq(history, 1, k - 1))),
         count |-> Num(history[k].vertLength)]]

\* C9 (as claimed): in every reachable state a render pass issues one draw
\* call per run, in order, each starting at the sum of the earlier lengths and
\* covering the run's length, and ends with its offset equal to vertexCount.
C9_RenderOffsets ==
    LET pass == render(drawingHistory)
    IN  /\ \A k \in 1..Len(drawingHistory) : IsRun(drawingHistory[k])
        /\ pass.calls = ExpectedCalls(drawingHistory)
        /\ pass.offset.t = "num"
        /\ pass.offset.v * CoordBytesPerVertex = currentCoordByteOffset

\* A snapshot list whose position array has an odd length or whose position
\* and colour arrays stand for different numbers of vertices.
IsMalformed(file) ==
    /\ file.text = "json"
    /\ Len(file.list) >= 2
    /\ LET n == Len(file.list)
           np == Len(ObjectValues(file.list[n - 1]))
           nc == Len(ObjectValues(file.list[n]))
       IN  \/ np % 2 # 0
           \/ nc % 3 # 0
           \/ np \div 2 # nc \div 3

\* C10 (as claimed): the load of a malformed snapshot leaves the ledger, the
\* stored positions and colours and both offsets as they were.
C10_MalformedRejected ==
    [][(\E i \in 1..Len(readers) : IsMalformed(readers[i]) /\ readerLoad(i))
       => UNCHANGED <<drawingHistory, posBuffer, colorBuffer,
                      currentCoordByteOffset, currentColorByteOffset>>]_vars

\* The ledger, the stored components and both offsets.
dataModel == <<drawingHistory, posBuffer, colorBuffer, currentCoordByteOffset,
               currentColorByteOffset>>

\* C11 (as claimed): a load that fails leaves the whole data model as it was;
\* no load replaces one part and keeps another.
C11_LoadAtomic ==
    [][((\E i \in 1..Len(readers) : readerLoad(i)) /\ ev'.outcome = "threw")
       => UNCHANGED dataModel]_vars

\* C12 (as claimed): while a FileReader is reading, no click, download or
\* further upload is handled.
C12_NoEditWhileLoading ==
    [][readers # <<>>
       => ~(\/ \E e \in Clicks : addVertex(e)
            \/ downloadDrawing
            \/ \E file \in Files : uploadDrawing(file))]_vars

\* The position stored by the last click, when its write fitted the buffer.
LastStored ==
    LET k == currentCoordByteOffset \div BYTES_PER_ELEMENT
    IN  <<posBuffer[k - 1], posBuffer[k]>>

\* n/d lies in [-1, 1].
InUnitRange(q) == q[2] > 0 /\ -q[2] <= q[1] /\ q[1] <= q[2]

\* C13: a click at (x, y) on a surface of size (w, h) is stored as
\* (2x/w - 1, 1 - 2y/h); (0,0) gives (-1,1), (w,h) gives (1,-1), (w/2,h/2)
\* gives (0,0), and with 0 <= x <= w, 0 <= y <= h both components lie in
\* [-1,1].
C13_CoordinateMapping ==
    (ev.op = "click" /\ currentCoordByteOffset <= CapacityCoordBytes)
    => LET e == ev.click
           sx == LastStored[1]
           sy == LastStored[2]
       IN  /\ sx[2] > 0 /\ sx[1] * e.w = sx[2] * (2 * e.x - e.w)
           /\ sy[2] > 0 /\ sy[1] * e.h = sy[2] * (e.h - 2 * e.y)
           /\ (e.x = 0 /\ e.y = 0) => (sx = <<-1, 1>> /\ sy = <<1, 1>>)
           /\ (e.x = e.w /\ e.y = e.h) => (sx = <<1, 1>> /\ sy = <<-1, 1>>)
           /\ (2 * e.x = e.w /\ 2 * e.y = e.h) => (sx = <<0, 1>> /\ sy = <<0, 1>>)
           /\ InUnitRange(sx) /\ InUnitRange(sy)

\* C13 witness: after a click in a corner, a click in the centre of a
\* 2 x 2 surface was stored.
C13_Witness ==
    /\ ev.op = "click"
    /\ ev.click = [x |-> 1, y |-> 1, w |-> 2, h |-> 2]
    /\ currentCoordByteOffset = 2 * CoordBytesPerVertex
    /\ posBuffer[1] = <<1, 1>> /\ posBuffer[2] = <<-1, 1>>
    /\ LastStored = <<Zero, Zero>>

\* The window's load event was handled on a page without the canvas or
\* without a WebGL 2 context.
StartupFailed == phase # "loading" /\ ~(page.canvas /\ page.context)

\* C14: when the canvas or the context is missing at startup, the failure is
\* alerted exactly once and nothing is initialized: no offsets, no buffers, no
\* listeners, no render pass; and no later step changes anything.
C14_StartupFailureStops ==
    /\ [](StartupFailed
          => /\ alerts = 1
             /\ handlers = {}
             /\ posBuffer = <<>> /\ colorBuffer = <<>>
             /\ currentCoordByteOffset = Undefined
             /\ currentColorByteOffset = Undefined
             /\ drawCalls = <<>> /\ startingIndexPerMode = Undefined
             /\ drawingHistory = <<>>)
    /\ [][StartupFailed => vars' = vars]_vars

\* C14 witness: startup has failed for want of a context and was reported.
C14_Witness ==
    /\ StartupFailed
    /\ page.canvas
    /\ phase = "failed" /\ alerts = 1 /\ handlers = {}

\* C15 (as claimed): in every reachable state every entry of drawingHistory
\* is a run with one of the primitive modes and a length of at least 1.
C15_EntriesAreRuns ==
    \A i \in 1..Len(drawingHistory) :
        /\ IsRun(drawingHistory[i])
        /\ drawingHistory[i].mode \in Modes
        /\ drawingHistory[i].vertLength >= 1

\* C16: a render pass leaves the ledger, the stored components, both offsets,
\* the mode and the colour as they were, and a pass that follows a pass (of
\* its own, of a click or of startup) with no change in between issues the
\* same draw calls.
C16_RenderReadOnly ==
    /\ [][renderPass => UNCHANGED <<dataModel, drawingMode, drawingColor>>]_vars
    /\ [][(renderPass /\ ev.op \in {"render", "click", "init"})
          => (drawCalls' = drawCalls
              /\ startingIndexPerMode' = startingIndexPerMode)]_vars

\* C16 witness: a pass over a ledger that holds runs and downloaded arrays
\* has just run.
C16_Witness ==
    /\ ev.op = "render"
    /\ \E i, j \in 1..Len(drawingHistory) :
          IsRun(drawingHistory[i]) /\ ~IsRun(drawingHistory[j])
    /\ Len(drawCalls) = Len(drawingHistory)

\* buf with data written from component `first` (counted from 0).
WrittenAt(buf, first, data) ==
    [i \in 1..Len(buf) |->
        IF i > first /\ i <= first + Len(data) THEN data[i - first] ELSE buf[i]]

\* The ledger `after` is `before` with one vertex of `mode` recorded: every
\* entry but the last is as it was, and either the last run grew by one or a
\* run {mode, 1} was added behind it.
OneVertexRecorded(before, after, mode) ==
    LET n == Len(before)
    IN  \/ /\ n > 0
           /\ Len(after) = n
           /\ IsRun(before[n]) /\ before[n].mode = mode
           /\ after = [before EXCEPT ![n] = Run(mode, before[n].vertLength + 1)]
        \/ /\ (n = 0 \/ ~IsRun(before[n]) \/ before[n].mode # mode)
           /\ after = Append(before, Run(mode, 1))

\* C17 (as claimed): a click with vertexCount < MAX_VERTICES writes one
\* position at component 2 * vertexCount and one colour at component
\* 3 * vertexCount and nothing else, changes the ledger only at its end, and
\* no step but a load lowers an offset.
C17_AppendOnly ==
    /\ [][\A e \in Clicks :
            (addVertex(e) /\ currentCoordByteOffset < CapacityCoordBytes)
            => LET vertexCount == currentCoordByteOffset \div CoordBytesPerVertex
               IN  /\ currentCoordByteOffset % CoordBytesPerVertex = 0
                   /\ posBuffer' = WrittenAt(posBuffer, 2 * vertexCount, ClipCoords(e))
                   /\ colorBuffer' = WrittenAt(colorBuffer, 3 * vertexCount, drawingColor)
                   /\ OneVertexRecorded(drawingHistory, drawingHistory', drawingMode)]_vars
    /\ [][(\E i \in 1..Len(readers) : readerLoad(i))
          \/ (/\ currentCoordByteOffset' >= currentCoordByteOffset
              /\ currentColorByteOffset' >= currentColorByteOffset)]_vars

\* A snapshot list of runs followed by a position array and a colour array
\* that stand for the same whole number of vertices.
IsWellFormed(file) ==
    /\ file.text = "json"
    /\ Len(file.list) >= 2
    /\ LET n == Len(file.list)
       IN  /\ \A i \in 1..(n - 2) : IsRun(file.list[i])
           /\ file.list[n - 1].kind = "obj"
           /\ file.list[n].kind = "obj"
           /\ Len(file.list[n - 1].data) % 2 = 0
           /\ Len(file.list[n].data) % 3 = 0
           /\ Len(file.list[n - 1].data) \div 2 = Len(file.list[n].data) \div 3

\* The components of buf that a write offset of byteOffset declares stored;
\* none can be read past the end of buf.
Stored(buf, byteOffset) ==
    LET n == byteOffset \div BYTES_PER_ELEMENT
    IN  [i \in 1..n |-> IF i <= Len(buf) THEN buf[i] ELSE <<"none", i>>]

\* C18 (as claimed): when the load of a well-formed snapshot has completed,
\* the ledger, the stored positions and colours and both offsets are exactly
\* those of the snapshot.
C18_LoadReplacesAll ==
    (ev.op = "load" /\ ev.outcome = "ok" /\ IsWellFormed(ev.file))
    => LET n == Len(ev.file.list)
           vertices == ObjectValues(ev.file.list[n - 1])
           colors == ObjectValues(ev.file.list[n])
       IN  /\ drawingHistory = SubSeq(ev.file.list, 1, n - 2)
           /\ currentCoordByteOffset = Len(vertices) * BYTES_PER_ELEMENT
           /\ currentColorByteOffset = Len(colors) * BYTES_PER_ELEMENT
           /\ Stored(posBuffer, currentCoordByteOffset) = vertices
           /\ Stored(colorBuffer, currentColorByteOffset) = colors

\* C19 (as claimed): in every state between two events the last render pass
\* is a pass over the ledger as it is now.
C19_AlwaysRendered ==
    /\ drawCalls = render(drawingHistory).calls
    /\ startingIndexPerMode = render(drawingHistory).offset

\* C20 (as claimed): downloadDrawing leaves the ledger and both offsets as
\* they were, a download right after a download writes the same snapshot, and
\* a click right after a download in the mode of the last run adds no run.
C20_DownloadIsPureRead ==
    /\ [][downloadDrawing
          => UNCHANGED <<drawingHistory, currentCoordByteOffset,
                         currentColorByteOffset>>]_vars
    /\ [][(downloadDrawing /\ ev.op = "download") => disk'.list = disk.list]_vars
    /\ [][\A e \in Clicks :
            (/\ addVertex(e)
             /\ ev.op = "download"
             /\ RunsOf(drawingHistory) # <<>>
             /\ RunsOf(drawingHistory)[Len(RunsOf(drawingHistory))].mode = drawingMode)
            => Len(RunsOf(drawingHistory')) = Len(RunsOf(drawingHistory))]_vars

====
